---- MODULE Spec2Model ----
(***************************************************************************)
(* A state-machine model of models/tacotron.py: the Tacotron object with   *)
(* its three graph-building methods (initialize, add_loss, add_optimizer), *)
(* the decoding loop that initialize runs through dynamic_decode, and the  *)
(* execution of one training step of the graph add_optimizer builds.       *)
(*                                                                         *)
(* Tensors are nested sequences of integers, batch-major: a rank-3 tensor  *)
(* [N, T, D] is a sequence of N sequences of T sequences of D integers.    *)
(* Scalars of the loss are exact: a rational part plus a rational multiple *)
(* of 1e-6 (the regularization weight), so that sums can be compared.      *)
(***************************************************************************)
EXTENDS Integers, Sequences, FiniteSets, TLC

\* ------------------------------------------------------------------ bounds

\* Largest batch size N fed to initialize.
MaxBatch == 2
\* Largest target length T (frames of mel_targets / linear_targets).
MaxTargetLen == 3
\* Largest hp.outputs_per_step (r).
MaxOutputsPerStep == 2
\* Largest hp.max_iters.
MaxIters == 3

\* ------------------------------------------------------- exact arithmetic

RECURSIVE GCD(_, _)
GCD(a, b) == IF b = 0 THEN a ELSE GCD(b, a % b)

Abs(x) == IF x < 0 THEN -x ELSE x

\* A rational number n/d in lowest terms, d > 0.
Rat(n, d) ==
  LET g == GCD(Abs(n), Abs(d))
      s == IF d < 0 THEN -1 ELSE 1
  IN  <<(s * n) \div g, (s * d) \div g>>

RatAdd(x, y) == Rat(x[1] * y[2] + y[1] * x[2], x[2] * y[2])

RatMul(x, y) == Rat(x[1] * y[1], x[2] * y[2])

\* A float scalar of the graph: main + micro * 1e-6, or the failure of the
\* op that computes it when the session evaluates it.
Scalar(main, micro) == [ok |-> TRUE, main |-> main, micro |-> micro]

Invalid == [ok |-> FALSE]

ScalarAdd(x, y) ==
  IF x.ok /\ y.ok
  THEN Scalar(RatAdd(x.main, y.main), RatAdd(x.micro, y.micro))
  ELSE Invalid

\* ---------------------------------------------------------------- tensors

None == [kind |-> "None"]

Tensor(val) == [kind |-> "Tensor", val |-> val]

RECURSIVE SumSeq(_)
SumSeq(s) == IF s = <<>> THEN 0 ELSE Head(s) + SumSeq(Tail(s))

RECURSIVE Flatten(_)
Flatten(ss) == IF ss = <<>> THEN <<>> ELSE Head(ss) \o Flatten(Tail(ss))

\* The shape of a rank-3 tensor value.
Shape(v) == <<Len(v), Len(v[1]), Len(v[1][1])>>

Zeros(n) == [i \in 1..n |-> 0]

\* ------------------------------------------------------------ hyperparams

\* The configuration objects the constructor may store (hparams), for the
\* given choices of the fields that only the loss reads.
Hparams(sample_rates, symmetric) ==
  [outputs_per_step : 1..MaxOutputsPerStep,
   max_iters        : 1..MaxIters,
   num_mels         : {2},
   num_freq         : {3},
   sample_rate      : sample_rates,
   symmetric_mels   : symmetric,
   max_abs_value    : {4}]

\* ------------------------------------------------------------- the feeder

\* Lengths T_in of the padded input sequences of a batch.
InputLens == {5}

\* The value at batch item i, frame p, bin k of the spectrograms the feeder
\* supplies. Every frame of an item differs from every other frame of it
\* and from the zero frame.
MelValue(i, p, k) == i + p + k - 2

LinearValue(i, p, k) == i + p + k - 1

\* mel_targets of shape [n, t, num_mels].
MelTargets(n, t, hp_) ==
  Tensor([i \in 1..n |-> [p \in 1..t |->
            [k \in 1..hp_.num_mels |-> MelValue(i, p, k)]]])

\* linear_targets of shape [n, t, num_freq].
LinearTargets(n, t, hp_) ==
  Tensor([i \in 1..n |-> [p \in 1..t |->
            [k \in 1..hp_.num_freq |-> LinearValue(i, p, k)]]])

\* ---------------------------------------------------------- variable names

Chars_inference == <<"i", "n", "f", "e", "r", "e", "n", "c", "e", "/">>
Chars_embedding == <<"e", "m", "b", "e", "d", "d", "i", "n", "g">>
Chars_kernel == <<"k", "e", "r", "n", "e", "l">>
Chars_bias == <<"b", "i", "a", "s">>
Chars_Bias == <<"B", "i", "a", "s">>

\* The names of the variables one stage's layers create, after its scope.
StageVariables == <<Chars_kernel, Chars_bias>>

\* ------------------------------------------------------------------ state

VARIABLES
  hp,                   \* self._hparams
  net,                  \* what the trained postnet and expand stage compute
  self,                 \* the fields of the model object: <<>> while unset
  trainable_variables,  \* the graph's collection, in creation order
  update_ops,           \* the graph's UPDATE_OPS collection
  pc,                   \* "idle", "decoding" (inside initialize) or "running"
  call,                 \* the locals of the latest initialize call that built
                        \* anything
  dec,                  \* the state of dynamic_decode's loop
  raised,               \* the exception the latest call raised, "" if none
  run                   \* the ops the running training step has executed

vars == <<hp, net, self, trainable_variables, update_ops, pc, call, dec, raised,
          run>>

Fields ==
  {"inputs", "input_lengths", "decoder_outputs", "mel_outputs",
   "linear_outputs", "linear_targets", "alignments", "mel_targets",
   "decoder_loss", "mel_loss", "linear_loss", "regularization_loss", "loss",
   "learning_rate", "gradients", "optimize"}

HasAttr(obj, f) == obj[f] # <<>>

GetAttr(obj, f) == obj[f][1]

NoCall == [made |-> FALSE]

NoLoop == [time |-> 0]

\* ------------------------------------------------------------- initialize

\* The mode taken from mel_targets instead of linear_targets.
IsTraining_mel(mel_targets, linear_targets) == mel_targets.kind # "None"

\* is_training, line 35.
IsTraining(mel_targets, linear_targets) == linear_targets.kind # "None"

\* The helper of lines 78-81.
SelectHelper(is_training) ==
  IF is_training THEN "TacoTrainingHelper" ELSE "TacoTestHelper"

\* tf.get_variable of a name the graph already holds raises (no reuse is
\* set on the scope of line 34).
VariableExists(name) ==
  \E i \in 1..Len(trainable_variables) : trainable_variables[i].name = name

\* The k-th variable of the graph holds 2^(k-1): the L2 terms of different
\* variables then occupy different binary digits of their sum.
RECURSIVE Pow2(_)
Pow2(k) == IF k = 0 THEN 1 ELSE 2 * Pow2(k - 1)

RECURSIVE CreateVariables(_, _)
CreateVariables(coll, names) ==
  IF names = <<>> THEN coll
  ELSE CreateVariables(
         Append(coll, [name |-> Head(names), value |-> <<Pow2(Len(coll))>>]),
         Tail(names))

Scoped(scope, names) == [i \in 1..Len(names) |-> scope \o names[i]]

\* The normalization layers of a stage add their moving-statistics updates
\* to UPDATE_OPS when built with is_training.
StageUpdateOps(stage, is_training) == IF is_training THEN {stage} ELSE {}

\* The go frame both helpers feed at step 0.
GoFrames(n, hp_) == [i \in 1..n |-> Zeros(hp_.num_mels)]

\* TacoTrainingHelper: the number of decoder steps for targets of length t.
TrainingSteps(t, r) == (t + r - 1) \div r

\* TacoTrainingHelper.next_inputs: the target frame at position (time+1)*r,
\* the last frame of the group the step was to predict.
TrainingNextInputs(mel_targets, time, hp_) ==
  LET pos == (time + 1) * hp_.outputs_per_step
  IN  [i \in 1..Len(mel_targets.val) |->
         IF pos <= Len(mel_targets.val[i])
         THEN mel_targets.val[i][pos]
         ELSE Zeros(hp_.num_mels)]

TrainingFinished(mel_targets, time, hp_) ==
  [i \in 1..Len(mel_targets.val) |->
     time + 1 >= TrainingSteps(Len(mel_targets.val[i]), hp_.outputs_per_step)]

\* The first of the r frames fed back instead of the last.
TestNextInputs_first(outputs, hp_) ==
  [i \in 1..Len(outputs) |-> SubSeq(outputs[i], 1, hp_.num_mels)]

\* TacoTestHelper.next_inputs: the last of the r frames the step emitted.
TestNextInputs(outputs, hp_) ==
  [i \in 1..Len(outputs) |->
     SubSeq(outputs[i], Len(outputs[i]) - hp_.num_mels + 1, Len(outputs[i]))]

\* TacoTestHelper: an item stops when the frames it emitted are silent.
TestFinished(outputs) ==
  [i \in 1..Len(outputs) |-> \A k \in 1..Len(outputs[i]) : outputs[i][k] = 0]

\* One iteration more than the configured maximum.
MaximumIterations_plus_one(hp_) == hp_.max_iters + 1

\* maximum_iterations of line 86.
MaximumIterations(hp_) == hp_.max_iters

\* The maximum tested against the steps before this one.
NextFinished_late(finished, helper_finished, time, maximum_iterations) ==
  [i \in DOMAIN finished |->
     helper_finished[i] \/ finished[i] \/ time >= maximum_iterations]

\* dynamic_decode's body: an item is finished once the helper says so, once
\* it was finished before, or once the step count reaches the maximum.
NextFinished(finished, helper_finished, time, maximum_iterations) ==
  [i \in DOMAIN finished |->
     helper_finished[i] \/ finished[i] \/ time + 1 >= maximum_iterations]

AllFinished(finished) == \A i \in DOMAIN finished : finished[i]

\* What FrameProjectionCell emits for item i at step `time` (0-based): r
\* frames, flat, either the frames of the reference spectrogram at those
\* positions or silence.
CellOutput(kind, i, time, hp_) ==
  [k \in 1..(hp_.num_mels * hp_.outputs_per_step) |->
     IF kind = "silent" THEN 0
     ELSE MelValue(i,
                   time * hp_.outputs_per_step + ((k - 1) \div hp_.num_mels) + 1,
                   ((k - 1) % hp_.num_mels) + 1)]

\* The emissions of a batch of n at one step: its first j items emit
\* silence and the others the reference frames, for every j.
Emissions(n) ==
  {[i \in 1..n |-> IF i <= j THEN "silent" ELSE "reference"] : j \in 0..n}

\* tf.reshape(multi_decoder_outputs, [batch_size, -1, num_mels]), line 89:
\* the flat outputs of item i, cut into frames of num_mels values.
Reshape(outputs, num_mels) ==
  [i \in 1..Len(outputs) |->
     LET flat == Flatten(outputs[i])
     IN  [p \in 1..(Len(flat) \div num_mels) |->
            SubSeq(flat, (p - 1) * num_mels + 1, p * num_mels)]]

\* The elementwise sum of line 98.
TensorAdd(a, b) ==
  [i \in 1..Len(a) |-> [p \in 1..Len(a[i]) |->
     [k \in 1..Len(a[i][p]) |-> a[i][p][k] + b[i][p][k]]]]

\* tf.transpose(x, perm) on a shape (perm is 0-based), line 113.
Transpose(shape, perm) == [d \in 1..Len(perm) |-> shape[perm[d] + 1]]

\* alignment_history.stack(): one [N, T_in] alignment per step written.
Stack(history) == <<Len(history)>> \o history[1]

\* The stacked history left step-major.
AlignmentsOf_stacked(history) == Stack(history)

AlignmentsOf(history) == Transpose(Stack(history), <<1, 2, 0>>)

\* What the postnet (a residual, the same at every bin) and the expand
\* stage (the reference linear frames or silence) compute.
Nets(residuals, linears) == [residual : residuals, linear : linears]

Init ==
  /\ hp \in Hparams({8000}, {FALSE})
  /\ net \in Nets({1}, {"silent"})
  /\ self = [f \in Fields |-> <<>>]
  /\ trainable_variables = <<>>
  /\ update_ops = {}
  /\ pc = "idle"
  /\ call = NoCall
  /\ dec = NoLoop
  /\ raised = ""
  /\ run = {}

\* The locals of an initialize call that has built the encoder and the
\* decoder cell, lines 35-81.
Locals(mel_targets, linear_targets) ==
  LET is_training == IsTraining(mel_targets, linear_targets)
  IN  [made |-> TRUE,
       mel_targets |-> mel_targets,
       linear_targets |-> linear_targets,
       is_training |-> is_training,
       helper |-> SelectHelper(is_training),
       stages |-> {<<"encoder", is_training>>,
                   <<"decoder_prenet", is_training>>}]

\* initialize on a graph that already holds the embedding: line 40 raises
\* and the locals of the call are gone.
InitializeAgain ==
  /\ VariableExists(Chars_inference \o Chars_embedding)
  /\ raised' = "ValueError"
  /\ UNCHANGED <<hp, net, self, trainable_variables, update_ops, pc, call,
                 dec, run>>

\* The variables of lines 40-54: the embedding and the encoder's.
EncoderVariables(stage_variables) ==
  <<Chars_inference \o Chars_embedding>>
    \o Scoped(Chars_inference \o <<"e", "/">>, stage_variables)

\* The variables of lines 92-110: the postnet's and the expand stage's.
OutputVariables(stage_variables) ==
  Scoped(Chars_inference \o <<"p", "/">>, stage_variables)
    \o Scoped(Chars_inference \o <<"x", "/">>, stage_variables)

\* Lines 34-76: the embedding, the encoder and the decoder cell are built
\* with the mode of line 35.
BuildEncoder(is_training) ==
  /\ trainable_variables' =
       CreateVariables(trainable_variables, EncoderVariables(StageVariables))
  /\ update_ops' = update_ops \cup StageUpdateOps("encoder", is_training)

\* The teacher-forcing helper cannot be built without mel targets: line 79
\* raises after the encoder was built in training mode.
InitializeNoTargets(mel_targets, linear_targets) ==
  LET locals == Locals(mel_targets, linear_targets)
  IN  /\ ~VariableExists(Chars_inference \o Chars_embedding)
      /\ locals.helper = "TacoTrainingHelper"
      /\ mel_targets.kind = "None"
      /\ BuildEncoder(locals.is_training)
      /\ call' = locals
      /\ raised' = "TypeError"
      /\ UNCHANGED <<hp, net, self, pc, dec, run>>

\* dynamic_decode before its first step, lines 83-86.
StartLoop(n, t_in, hp_) ==
  [time |-> 0,
   batch_size |-> n,
   t_in |-> t_in,
   finished |-> [i \in 1..n |-> 0 >= MaximumIterations(hp_)],
   next_inputs |-> GoFrames(n, hp_),
   fed |-> <<>>,
   outputs |-> [i \in 1..n |-> <<>>],
   alignment_history |-> <<>>]

\* One iteration of dynamic_decode's loop, lines 84-86: the cell consumes
\* next_inputs and emits r frames per item (of kinds[i] for item i), the
\* attention writes one alignment, and the helper decides the next input
\* and who is finished.
StepLoop(loop, locals, kinds, hp_) ==
  LET outputs == [i \in 1..loop.batch_size |->
                    CellOutput(kinds[i], i, loop.time, hp_)]
      training == locals.helper = "TacoTrainingHelper"
      helper_finished ==
        IF training
        THEN TrainingFinished(locals.mel_targets, loop.time, hp_)
        ELSE TestFinished(outputs)
      inputs ==
        IF training
        THEN TrainingNextInputs(locals.mel_targets, loop.time, hp_)
        ELSE TestNextInputs(outputs, hp_)
  IN  [loop EXCEPT
         !.time = loop.time + 1,
         !.finished = NextFinished(loop.finished, helper_finished, loop.time,
                                   MaximumIterations(hp_)),
         !.next_inputs = inputs,
         !.fed = Append(loop.fed, loop.next_inputs),
         !.outputs = [i \in 1..loop.batch_size |->
                        Append(loop.outputs[i], outputs[i])],
         !.alignment_history =
           Append(loop.alignment_history, <<loop.batch_size, loop.t_in>>)]

\* Lines 34-86 up to the first test of the loop condition.
InitializeDecode(mel_targets, linear_targets, n, t_in) ==
  LET locals == Locals(mel_targets, linear_targets)
  IN  /\ ~VariableExists(Chars_inference \o Chars_embedding)
      /\ locals.helper = "TacoTrainingHelper" => mel_targets.kind # "None"
      /\ BuildEncoder(locals.is_training)
      /\ call' = locals
      /\ dec' = StartLoop(n, t_in, hp)
      /\ pc' = "decoding"
      /\ raised' = ""
      /\ UNCHANGED <<hp, net, self, run>>

InitializeBegin ==
  /\ pc = "idle"
  /\ \/ InitializeAgain
     \/ \E n \in 1..MaxBatch, t \in 1..MaxTargetLen, t_in \in InputLens,
           mel_given \in BOOLEAN, linear_given \in BOOLEAN :
          LET mel_targets == IF mel_given THEN MelTargets(n, t, hp) ELSE None
              linear_targets ==
                IF linear_given THEN LinearTargets(n, t, hp) ELSE None
          IN  \/ InitializeNoTargets(mel_targets, linear_targets)
              \/ InitializeDecode(mel_targets, linear_targets, n, t_in)

DecodeStep ==
  /\ pc = "decoding"
  /\ ~AllFinished(dec.finished)
  /\ \E kinds \in Emissions(dec.batch_size) :
       dec' = StepLoop(dec, call, kinds, hp)
  /\ UNCHANGED <<hp, net, self, trainable_variables, update_ops, pc, call,
                 raised, run>>

\* The postnet's residual for decoder_outputs, lines 92-97.
PostnetOutputs(decoder_outputs, net_) ==
  [i \in 1..Len(decoder_outputs) |-> [p \in 1..Len(decoder_outputs[i]) |->
     [k \in 1..Len(decoder_outputs[i][p]) |-> net_.residual]]]

\* What the expand stage and the dense layer of lines 101-110 emit for the
\* frames of mel_outputs.
LinearOutputs(mel_outputs, net_, hp_) ==
  [i \in 1..Len(mel_outputs) |-> [p \in 1..Len(mel_outputs[i]) |->
     [k \in 1..hp_.num_freq |->
        IF net_.linear = "silent" THEN 0 ELSE LinearValue(i, p, k)]]]

\* decoder_outputs and mel_outputs, lines 89-98.
DecoderOutputs(loop, hp_) == Reshape(loop.outputs, hp_.num_mels)

MelOutputs(decoder_outputs, net_) ==
  TensorAdd(decoder_outputs, PostnetOutputs(decoder_outputs, net_))

\* The fields lines 115-122 set.
Initialized(obj, loop, locals, net_, hp_) ==
  LET decoder_outputs == DecoderOutputs(loop, hp_)
      mel_outputs == MelOutputs(decoder_outputs, net_)
  IN  [obj EXCEPT
         !["inputs"] = <<[shape |-> <<loop.batch_size, loop.t_in>>]>>,
         !["input_lengths"] = <<[shape |-> <<loop.batch_size>>]>>,
         !["decoder_outputs"] = <<Tensor(decoder_outputs)>>,
         !["mel_outputs"] = <<Tensor(mel_outputs)>>,
         !["linear_outputs"] =
           <<Tensor(LinearOutputs(mel_outputs, net_, hp_))>>,
         !["linear_targets"] = <<locals.linear_targets>>,
         !["alignments"] =
           <<[shape |-> AlignmentsOf(loop.alignment_history)]>>,
         !["mel_targets"] = <<locals.mel_targets>>]

\* The stages lines 92-109 build, with their mode.
OutputStages(locals) ==
  [locals EXCEPT !.stages = @ \cup {<<"postnet", locals.is_training>>,
                                    <<"expand", locals.is_training>>}]

OutputUpdateOps(is_training) ==
  StageUpdateOps("postnet", is_training)
    \cup StageUpdateOps("expand", is_training)

\* Lines 89-122, once the loop has ended.
InitializeFinish ==
  /\ pc = "decoding"
  /\ AllFinished(dec.finished)
  /\ self' = Initialized(self, dec, call, net, hp)
  /\ trainable_variables' =
       CreateVariables(trainable_variables, OutputVariables(StageVariables))
  /\ update_ops' = update_ops \cup OutputUpdateOps(call.is_training)
  /\ call' = OutputStages(call)
  /\ pc' = "idle"
  /\ UNCHANGED <<hp, net, dec, raised, run>>

\* ---------------------------------------------------------------- add_loss

\* Two time axes broadcast when they agree or one of them is 1.
Broadcasts(t1, t2) == t1 = t2 \/ t1 = 1 \/ t2 = 1

Max(a, b) == IF a > b THEN a ELSE b

At(row, p) == IF Len(row) = 1 THEN row[1] ELSE row[p]

\* The broadcast of two [N, T, D] tensors, bins 1..bins of every frame, as
\* the flat list of the pairs of values that meet.
Pairs(a, b, bins) ==
  Flatten(Flatten(
    [i \in 1..Len(a) |->
       [p \in 1..Max(Len(a[i]), Len(b[i])) |->
          [k \in 1..bins |-> <<At(a[i], p)[k], At(b[i], p)[k]>>]]]))

\* tf.squared_difference over the broadcast.
SquaredDifference(a, b, bins) ==
  LET xy == Pairs(a, b, bins)
  IN  [j \in 1..Len(xy) |-> (xy[j][1] - xy[j][2]) * (xy[j][1] - xy[j][2])]

\* tf.abs(a - b) over the broadcast, line 144.
AbsDifference(a, b, bins) ==
  LET xy == Pairs(a, b, bins)
  IN  [j \in 1..Len(xy) |-> Abs(xy[j][1] - xy[j][2])]

\* tf.reduce_mean of a flat list.
ReduceMean(xs) == Rat(SumSeq(xs), Len(xs))

\* tf.losses.mean_squared_error(labels, predictions), lines 139 and 141.
MeanSquaredError(labels, predictions) ==
  IF Broadcasts(Len(labels.val[1]), Len(predictions.val[1]))
  THEN Scalar(ReduceMean(SquaredDifference(labels.val, predictions.val,
                                           Len(labels.val[1][1]))),
              Rat(0, 1))
  ELSE Invalid

\* n_priority_freq, line 145.
PriorityFreq(hp_) == (2000 * 2 * hp_.num_freq) \div hp_.sample_rate

Min(a, b) == IF a < b THEN a ELSE b

\* linear_loss, lines 144-146.
LinearLoss(linear_targets, linear_outputs, hp_) ==
  IF Broadcasts(Len(linear_targets.val[1]), Len(linear_outputs.val[1]))
  THEN LET l1 == AbsDifference(linear_targets.val, linear_outputs.val,
                               hp_.num_freq)
           priority == AbsDifference(linear_targets.val, linear_outputs.val,
                                     Min(PriorityFreq(hp_), hp_.num_freq))
       IN  Scalar(RatAdd(RatMul(Rat(1, 2), ReduceMean(l1)),
                         RatMul(Rat(1, 2), ReduceMean(priority))),
                  Rat(0, 1))
  ELSE Invalid

\* reg_weight of lines 149-150, in units of 1e-6.
RegWeight(hp_) ==
  IF hp_.symmetric_mels
  THEN Rat(1, 2 * hp_.max_abs_value)
  ELSE Rat(1, hp_.max_abs_value)

\* pattern in name, for strings as sequences of characters.
RECURSIVE In(_, _)
In(pattern, name) ==
  IF Len(name) < Len(pattern) THEN FALSE
  ELSE \/ SubSeq(name, 1, Len(pattern)) = pattern
       \/ In(pattern, Tail(name))

\* Only the lower-case spelling tested.
Regularized_lowercase(v) == ~In(Chars_bias, v.name)

\* The condition of line 155.
Regularized(v) == ~(In(Chars_bias, v.name) \/ In(Chars_Bias, v.name))

\* tf.nn.l2_loss(v): sum(v ** 2) / 2.
L2Loss(v) == Rat(SumSeq([k \in 1..Len(v.value) |-> v.value[k] * v.value[k]]), 2)

RECURSIVE AddN(_)
AddN(terms) ==
  IF terms = <<>> THEN Rat(0, 1) ELSE RatAdd(Head(terms), AddN(Tail(terms)))

\* regularization_loss, lines 153-155.
RegularizationLoss(all_vars, hp_) ==
  LET kept == SelectSeq(all_vars, Regularized)
  IN  Scalar(Rat(0, 1),
             RatMul(AddN([k \in 1..Len(kept) |-> L2Loss(kept[k])]),
                    RegWeight(hp_)))

\* The regularization term left out of the sum.
TotalLoss_unregularized(decoder_loss, mel_loss, linear_loss, reg_loss) ==
  ScalarAdd(ScalarAdd(decoder_loss, mel_loss), linear_loss)

\* The sum of line 157.
TotalLoss(decoder_loss, mel_loss, linear_loss, regularization_loss) ==
  ScalarAdd(ScalarAdd(ScalarAdd(decoder_loss, mel_loss), linear_loss),
            regularization_loss)

\* Line 139 reads fields that initialize never set.
AddLossNoAttribute ==
  /\ ~HasAttr(self, "mel_targets")
  /\ raised' = "AttributeError"
  /\ UNCHANGED self

\* Labels that are None accepted, and a loss set for them.
AddLossNoLabels_lenient ==
  /\ HasAttr(self, "mel_targets")
  /\ GetAttr(self, "mel_targets").kind = "None"
  /\ self' = [self EXCEPT !["loss"] = <<Invalid>>]
  /\ raised' = ""

\* mean_squared_error refuses labels that are None, line 139.
AddLossNoLabels ==
  /\ HasAttr(self, "mel_targets")
  /\ GetAttr(self, "mel_targets").kind = "None"
  /\ raised' = "ValueError"
  /\ UNCHANGED self

\* The two mel losses are set, then None - linear_outputs raises, line 144.
AddLossNoLinear ==
  /\ HasAttr(self, "mel_targets")
  /\ GetAttr(self, "mel_targets").kind # "None"
  /\ GetAttr(self, "linear_targets").kind = "None"
  /\ self' = [self EXCEPT
       !["decoder_loss"] = <<MeanSquaredError(GetAttr(self, "mel_targets"),
                                              GetAttr(self, "decoder_outputs"))>>,
       !["mel_loss"] = <<MeanSquaredError(GetAttr(self, "mel_targets"),
                                          GetAttr(self, "mel_outputs"))>>]
  /\ raised' = "ValueError"

AddLossComplete ==
  /\ HasAttr(self, "mel_targets")
  /\ GetAttr(self, "mel_targets").kind # "None"
  /\ GetAttr(self, "linear_targets").kind # "None"
  /\ LET decoder_loss == MeanSquaredError(GetAttr(self, "mel_targets"),
                                          GetAttr(self, "decoder_outputs"))
         mel_loss == MeanSquaredError(GetAttr(self, "mel_targets"),
                                      GetAttr(self, "mel_outputs"))
         linear_loss == LinearLoss(GetAttr(self, "linear_targets"),
                                   GetAttr(self, "linear_outputs"), hp)
         regularization_loss == RegularizationLoss(trainable_variables, hp)
     IN  self' = [self EXCEPT
           !["decoder_loss"] = <<decoder_loss>>,
           !["mel_loss"] = <<mel_loss>>,
           !["linear_loss"] = <<linear_loss>>,
           !["regularization_loss"] = <<regularization_loss>>,
           !["loss"] = <<TotalLoss(decoder_loss, mel_loss, linear_loss,
                                   regularization_loss)>>]
  /\ raised' = ""

AddLoss ==
  /\ pc = "idle"
  /\ \/ AddLossNoAttribute
     \/ AddLossNoLabels
     \/ AddLossNoLinear
     \/ AddLossComplete
  /\ UNCHANGED <<hp, net, trainable_variables, update_ops, pc, call, dec, run>>

\* ----------------------------------------------------------- add_optimizer

\* tf.train.exponential_decay(..., learning_rate_decay_halflife, 0.5),
\* lines 168-169: a node of the graph, read from global_step when run.
LearningRate == [op |-> "exponential_decay", decay_rate |-> Rat(1, 2)]

\* compute_gradients, line 171: one gradient per trainable variable.
Gradients(all_vars) == [k \in 1..Len(all_vars) |-> all_vars[k].name]

\* The update built outside the control dependencies.
ControlInputs_none(collection) == {}

\* The ops the context of line 177 makes the update wait for.
ControlInputs(collection) == collection

\* apply_gradients under the control dependencies, lines 177-179.
Optimize(all_vars, collection) ==
  [op |-> "apply_gradients",
   clip_norm |-> 1,
   variables |-> Gradients(all_vars),
   control_inputs |-> ControlInputs(collection)]

\* The learning rate is built, then line 171 reads a loss add_loss never set.
AddOptimizerNoLoss ==
  /\ ~HasAttr(self, "loss")
  /\ self' = [self EXCEPT !["learning_rate"] = <<LearningRate>>]
  /\ raised' = "AttributeError"

AddOptimizerComplete ==
  /\ HasAttr(self, "loss")
  /\ self' = [self EXCEPT
       !["learning_rate"] = <<LearningRate>>,
       !["gradients"] = <<Gradients(trainable_variables)>>,
       !["optimize"] = <<Optimize(trainable_variables, update_ops)>>]
  /\ raised' = ""

AddOptimizer ==
  /\ pc = "idle"
  /\ \/ AddOptimizerNoLoss
     \/ AddOptimizerComplete
  /\ UNCHANGED <<hp, net, trainable_variables, update_ops, pc, call, dec, run>>

\* ------------------------------------------------------ one training step

\* The ops a session runs when asked for self.optimize: the update itself
\* and the ops it waits for.
StepOps(optimize) == {optimize.op} \cup optimize.control_inputs

\* An op may run once the ops it waits for have run.
Ready(op, optimize, done) ==
  op = optimize.op => optimize.control_inputs \subseteq done

TrainStepBegin ==
  /\ pc = "idle"
  /\ HasAttr(self, "optimize")
  /\ pc' = "running"
  /\ run' = {}
  /\ UNCHANGED <<hp, net, self, trainable_variables, update_ops, call, dec, raised>>

\* The session runs one ready op. The parameter update (which also advances
\* the caller's global_step) ends the step.
TrainStepOp ==
  /\ pc = "running"
  /\ LET optimize == GetAttr(self, "optimize")
     IN  \E op \in StepOps(optimize) \ run :
           /\ Ready(op, optimize, run)
           /\ run' = run \cup {op}
           /\ pc' = IF op = optimize.op THEN "idle" ELSE pc
  /\ UNCHANGED <<hp, net, self, trainable_variables, update_ops, call, dec, raised>>

Next ==
  \/ InitializeBegin
  \/ DecodeStep
  \/ InitializeFinish
  \/ AddLoss
  \/ AddOptimizer
  \/ TrainStepBegin
  \/ TrainStepOp

Spec == Init /\ [][Next]_vars

\* dynamic_decode runs its loop body as long as the loop condition holds,
\* and initialize goes on once it ends.
FairSpec == Spec /\ WF_vars(DecodeStep) /\ WF_vars(InitializeFinish)

\* ------------------------------------------- the loss on initialized models

\* Names the layers of a stage may give a variable: around "bias", "Bias"
\* and names close to them, with prefixes that make a match start late.
LayerNames ==
  {pre \o core :
     pre \in {<<>>, <<"b">>, <<"b", "i">>},
     core \in {Chars_bias, Chars_Bias, <<"B", "I", "A", "S">>,
               <<"b", "i", "a">>}}
    \cup {Chars_kernel, <<"b", "e", "t", "a">>, Chars_bias \o <<"e", "s">>}

\* The model after a complete initialize call of one decoder step.
InitializedModel(hp_, net_, stage_variables, mel, linear, n, t_in, kinds) ==
  LET locals == Locals(mel, linear)
      loop == StepLoop(StartLoop(n, t_in, hp_), locals, kinds, hp_)
  IN  /\ hp = hp_
      /\ net = net_
      /\ self = Initialized([f \in Fields |-> <<>>], loop, locals, net_, hp_)
      /\ trainable_variables =
           CreateVariables(<<>>, EncoderVariables(stage_variables)
                                   \o OutputVariables(stage_variables))
      /\ update_ops = StageUpdateOps("encoder", locals.is_training)
                        \cup OutputUpdateOps(locals.is_training)
      /\ pc = "idle"
      /\ call = OutputStages(locals)
      /\ dec = loop
      /\ raised = ""
      /\ run = {}

OneStepHparams(sample_rates, symmetric) ==
  {h \in Hparams(sample_rates, symmetric) : h.max_iters = 1}

\* The states add_loss is called in: a new model, a model initialized
\* without both targets, and a model initialized for training, over the
\* sample rates, value conventions, networks and variable names.
InitLoss ==
  \/ Init
  \/ \E h \in OneStepHparams({8000}, {FALSE}), n \in 1..MaxBatch,
        t \in 1..MaxTargetLen, mel_given \in BOOLEAN :
       InitializedModel(h, [residual |-> 1, linear |-> "silent"],
         StageVariables,
         IF mel_given THEN MelTargets(n, t, h) ELSE None, None,
         n, 5, [i \in 1..n |-> "reference"])
  \/ \E h \in OneStepHparams({6000, 8000}, BOOLEAN),
        net_ \in Nets({0, 1}, {"reference", "silent"}),
        name \in LayerNames, n \in 1..MaxBatch, t \in 1..MaxTargetLen :
       \E kind \in {"reference", "silent"} :
         InitializedModel(h, net_, <<Chars_kernel, name>>, MelTargets(n, t, h),
           LinearTargets(n, t, h), n, 5, [i \in 1..n |-> kind])

SpecLoss == InitLoss /\ [][AddLoss]_vars

\* ----------------------------------------------------------------- claims

Supplied(x) == x.kind # "None"

LoopStarted == call.made /\ "finished" \in DOMAIN dec

Inference == call.made /\ call.helper = "TacoTestHelper"

Training == call.made /\ call.helper = "TacoTrainingHelper"

ModesAgree(training) ==
  /\ call.is_training = training
  /\ call.helper = "TacoTrainingHelper" <=> training
  /\ call.helper = "TacoTestHelper" <=> ~training
  /\ \A s \in call.stages : s[2] = training

\* C1, as stated: every initialize call selects training mode (the
\* teacher-forced helper, is_training for the encoder, the prenet, the
\* postnet and the expand stage) exactly when both mel_targets and
\* linear_targets are supplied, and inference mode otherwise.
C1_ModeIffBothTargets ==
  call.made =>
    ModesAgree(Supplied(call.mel_targets) /\ Supplied(call.linear_targets))

\* C1, amended: every initialize call selects training mode exactly when
\* linear_targets is supplied, whether or not mel_targets is, and inference
\* mode otherwise.
C1_ModeIffLinearTargets ==
  call.made => ModesAgree(Supplied(call.linear_targets))

\* An initialize call given mel_targets alone has built all four stages.
C1_Witness ==
  /\ call.made
  /\ Supplied(call.mel_targets)
  /\ ~Supplied(call.linear_targets)
  /\ {s[1] : s \in call.stages} =
       {"encoder", "decoder_prenet", "postnet", "expand"}

\* An earlier initialize call was given both targets and ran to its end.
InitializedWithTargets ==
  /\ call.made
  /\ Supplied(call.mel_targets)
  /\ Supplied(call.linear_targets)
  /\ HasAttr(self, "mel_outputs")

\* A step of add_loss that raises sets no loss.
AddLossFails ==
  /\ raised' \in {"AttributeError", "ValueError"}
  /\ self'["loss"] = self["loss"]

\* A step of add_optimizer that raises sets no update operation.
AddOptimizerFails ==
  /\ raised' = "AttributeError"
  /\ self'["optimize"] = self["optimize"]

\* C2: over every sequence of calls, a loss is set only after an initialize
\* call that was given the targets, and add_loss raises and sets no loss
\* otherwise; the update operation is set only after an add_loss call that
\* completed, and add_optimizer raises and sets none otherwise.
C2_CallOrder ==
  /\ [](HasAttr(self, "loss") => InitializedWithTargets)
  /\ [](HasAttr(self, "optimize") => HasAttr(self, "loss"))
  /\ [][AddLoss /\ ~InitializedWithTargets => AddLossFails]_vars
  /\ [][AddOptimizer /\ ~HasAttr(self, "loss") => AddOptimizerFails]_vars

\* add_optimizer has completed after add_loss, after an initialize call
\* with targets.
C2_Witness ==
  /\ HasAttr(self, "optimize")
  /\ HasAttr(self, "loss")
  /\ InitializedWithTargets
  /\ raised = ""

RoundUp(t, r) == ((t + r - 1) \div r) * r

TargetLen == Len(call.mel_targets.val[1])

\* C3: after initialize in training mode, for every target length T, every
\* outputs_per_step r and every max_iters, mel_outputs has shape
\* [N, T_out, num_mels] and linear_outputs has shape [N, T_out, num_freq]
\* with T_out equal to T rounded up to a multiple of r.
C3_TrainingShapes ==
  (Training /\ HasAttr(self, "mel_outputs")) =>
    LET t_out == RoundUp(TargetLen, hp.outputs_per_step)
    IN  /\ Shape(GetAttr(self, "mel_outputs").val) =
             <<dec.batch_size, t_out, hp.num_mels>>
        /\ Shape(GetAttr(self, "linear_outputs").val) =
             <<dec.batch_size, t_out, hp.num_freq>>

\* C4: in inference mode the loop never runs more than max_iters steps and
\* mel_outputs has at most max_iters * outputs_per_step frames, whatever
\* the stop condition does.
C4_InferenceBound ==
  (Inference /\ LoopStarted) =>
    /\ dec.time <= hp.max_iters
    /\ HasAttr(self, "mel_outputs") =>
         Len(GetAttr(self, "mel_outputs").val[1])
           <= hp.max_iters * hp.outputs_per_step

Silent(frames) == \A k \in 1..Len(frames) : frames[k] = 0

\* Item i has emitted silence at one of the first k steps.
Stopped(i, k) == \E s \in 1..k : Silent(dec.outputs[i][s])

\* An inference run that no item ever stopped has filled max_iters steps.
C4_Witness ==
  /\ Inference
  /\ HasAttr(self, "mel_outputs")
  /\ hp.max_iters > 1
  /\ \A i \in 1..dec.batch_size : ~Stopped(i, dec.time)
  /\ Len(GetAttr(self, "mel_outputs").val[1])
       = hp.max_iters * hp.outputs_per_step

\* C6: in either mode the loop has written one alignment and emitted one
\* group of r frames per item for every step it ran, and after initialize
\* alignments has shape [N, T_in, S] and mel_outputs S * r frames, S the
\* number of steps run.
C6_AlignmentPerStep ==
  LoopStarted =>
    /\ Len(dec.alignment_history) = dec.time
    /\ \A i \in 1..dec.batch_size : Len(dec.outputs[i]) = dec.time
    /\ HasAttr(self, "alignments") =>
         /\ GetAttr(self, "alignments").shape =
              <<dec.batch_size, dec.t_in, dec.time>>
         /\ Shape(GetAttr(self, "mel_outputs").val) =
              <<dec.batch_size, dec.time * hp.outputs_per_step, hp.num_mels>>

\* A batch of two has been decoded in two steps of two frames.
C6_Witness ==
  /\ HasAttr(self, "alignments")
  /\ dec.batch_size = 2
  /\ dec.time = 2
  /\ hp.outputs_per_step = 2
  /\ GetAttr(self, "alignments").shape = <<2, dec.t_in, 2>>

\* The loop's end condition after k steps: the maximum is reached or every
\* item's stop condition has held.
EndCondition(k) ==
  k >= hp.max_iters \/ \A i \in 1..dec.batch_size : Stopped(i, k)

\* C5: in inference mode the loop is over exactly when the stop condition
\* has held for every item or the step count has reached max_iters, it took
\* no step after that first happened, and every loop that starts ends with
\* initialize completing without an error, also when no stop ever holds.
C5_InferenceTerminates ==
  /\ []((Inference /\ LoopStarted) =>
          /\ AllFinished(dec.finished) <=> EndCondition(dec.time)
          /\ dec.time >= 1 => ~EndCondition(dec.time - 1))
  /\ (Inference /\ pc = "decoding")
       ~> (pc = "idle" /\ raised = "" /\ HasAttr(self, "mel_outputs"))

\* An inference run of a batch of two ended by the stop condition of both
\* items before the maximum, one item stopping a step before the other.
C5_Witness ==
  /\ Inference
  /\ HasAttr(self, "mel_outputs")
  /\ raised = ""
  /\ dec.batch_size = 2
  /\ dec.time = 2
  /\ dec.time < hp.max_iters
  /\ Stopped(1, 1)
  /\ ~Stopped(2, 1)

\* C9: in every training step the parameter update has run only if every
\* op of the UPDATE_OPS collection has run in that step.
C9_UpdateAfterStatistics ==
  "apply_gradients" \in run => update_ops \subseteq run

\* A training step has applied its update after the three stages'
\* statistics updates.
C9_Witness ==
  /\ "apply_gradients" \in run
  /\ update_ops = {"encoder", "postnet", "expand"}
  /\ pc = "idle"

\* Every frame emitted so far equals the reference frame at its position.
PerfectSoFar ==
  \A i \in 1..dec.batch_size : \A s \in 1..dec.time :
    dec.outputs[i][s] = CellOutput("reference", i, s - 1, hp)

\* The prenet input of step t (0-based) under perfect predictions: the zero
\* frame, then the reference frame at position t * r.
ExpectedInputs(t) ==
  [i \in 1..dec.batch_size |->
     [k \in 1..hp.num_mels |->
        IF t = 0 THEN 0 ELSE MelValue(i, t * hp.outputs_per_step, k)]]

\* C10: when every predicted frame equals the target frame at its position,
\* the teacher-forced loop and the autoregressive loop have both fed, at
\* every step t they ran, the zero frame for t = 0 and the frame at
\* position t * r after it: the same input in both modes, and by the
\* premise the same outputs.
C10_SamePrenetInputs ==
  (LoopStarted /\ PerfectSoFar) =>
    \A t \in 1..Len(dec.fed) : dec.fed[t] = ExpectedInputs(t - 1)

\* An autoregressive loop with perfect predictions has fed two steps of
\* two frames each.
C10_Witness ==
  /\ Inference
  /\ LoopStarted
  /\ PerfectSoFar
  /\ hp.outputs_per_step = 2
  /\ Len(dec.fed) = 2

\* The name holds "bias" or "Bias" at some position.
MarkedBias(name) ==
  \E j \in 1..(Len(name) - 3) :
    SubSeq(name, j, j + 3) \in {Chars_bias, Chars_Bias}

\* Twice the sum of the L2 terms in regularization_loss. The k-th variable
\* holds 2^(k-1), so its term, if present, is the k-th base-4 digit.
TwiceL2Sum ==
  LET w == RegWeight(hp)
      q == RatMul(GetAttr(self, "regularization_loss").micro,
                  Rat(2 * w[2], w[1]))
  IN  IF q[2] = 1 THEN q[1] ELSE -1

RECURSIVE Pow4(_)
Pow4(k) == IF k = 0 THEN 1 ELSE 4 * Pow4(k - 1)

TermPresent(k) == (TwiceL2Sum \div Pow4(k - 1)) % 4 = 1

\* C7: once add_loss has set regularization_loss, the L2 term of a
\* trainable variable is in its sum exactly when the variable's name does
\* not mark it as a bias (holds neither "bias" nor "Bias").
C7_BiasExcluded ==
  HasAttr(self, "regularization_loss") =>
    /\ TwiceL2Sum >= 0
    /\ \A k \in 1..Len(trainable_variables) :
         TermPresent(k) <=> ~MarkedBias(trainable_variables[k].name)

\* add_loss has summed over a model whose encoder has a kernel and a
\* variable named "bBias".
C7_Witness ==
  /\ HasAttr(self, "regularization_loss")
  /\ \E k \in 1..Len(trainable_variables) :
       /\ trainable_variables[k].name =
            Chars_inference \o <<"e", "/", "b">> \o Chars_Bias
       /\ ~TermPresent(k)
  /\ \E k \in 1..Len(trainable_variables) :
       /\ trainable_variables[k].name =
            Chars_inference \o <<"e", "/">> \o Chars_kernel
       /\ TermPresent(k)

\* C8: once add_loss has set loss, loss is the sum of decoder_loss,
\* mel_loss, linear_loss and regularization_loss, decoder_loss is the mean
\* squared error of the frames the decoder emitted, and mel_loss that of
\* those frames plus the postnet's residual.
C8_TotalLoss ==
  HasAttr(self, "loss") =>
    LET raw == Reshape(dec.outputs, hp.num_mels)
        refined == TensorAdd(raw, PostnetOutputs(raw, net))
    IN  /\ GetAttr(self, "loss") =
             ScalarAdd(GetAttr(self, "decoder_loss"),
               ScalarAdd(GetAttr(self, "mel_loss"),
                 ScalarAdd(GetAttr(self, "linear_loss"),
                           GetAttr(self, "regularization_loss"))))
        /\ GetAttr(self, "decoder_loss") =
             MeanSquaredError(GetAttr(self, "mel_targets"), Tensor(raw))
        /\ GetAttr(self, "mel_loss") =
             MeanSquaredError(GetAttr(self, "mel_targets"), Tensor(refined))

\* add_loss has summed four terms that all differ from zero, with a
\* residual that makes mel_loss differ from decoder_loss.
C8_Witness ==
  /\ HasAttr(self, "loss")
  /\ GetAttr(self, "loss").ok
  /\ net.residual = 1
  /\ GetAttr(self, "decoder_loss").main[1] > 0
  /\ GetAttr(self, "mel_loss") # GetAttr(self, "decoder_loss")
  /\ GetAttr(self, "linear_loss").main[1] > 0
  /\ GetAttr(self, "regularization_loss").micro[1] > 0

====
